---- MODULE Spec2Model ----
(***************************************************************************)
(* A model of samcli/local/docker/manager.py: ContainerManager.run,        *)
(* pull_image, has_image, _is_rapid_image and                              *)
(* _display_image_download_progress, with the docker client, the container *)
(* and the stream writer as the environment.                               *)
(*                                                                         *)
(* Image names are sequences of one-character strings, so that the prefix  *)
(* test and the regular expression are computed character by character.    *)
(***************************************************************************)
EXTENDS Integers, Sequences, FiniteSets, TLC

VARIABLES
    op,                 \* the method the caller invoked
    pc,                 \* position inside that call
    warm,               \* run's warm argument
    input_data,         \* run's input_data argument
    container,          \* the container: image, created, network_id
    skip_pull_image,    \* self.skip_pull_image
    docker_network_id,  \* self.docker_network_id
    image_name,         \* the image_name local / parameter
    is_image_local,     \* run's local is_image_local
    lookup,             \* what docker_client.images.get answered
    request,            \* what docker_client.api.pull answered
    consumed,           \* the items result_itr has delivered so far
    layers,             \* _display_image_download_progress's layers dict
    out,                \* what was written to stream_writer, in order
    calls,              \* the calls made on the collaborators, in order
    pull_status,        \* "not called", "running", "returned" or "raised"
    pull_exc,           \* the exception pull_image ended with
    ret,                \* the value returned to the caller
    raised              \* the exception raised to the caller

vars == <<op, pc, warm, input_data, container, skip_pull_image,
          docker_network_id, image_name, is_image_local, lookup, request,
          consumed, layers, out, calls, pull_status, pull_exc, ret, raised>>

-----------------------------------------------------------------------------
(* Bounds of the model *)

\* the longest pull event stream
MaxEvents == 4
\* the longest group of digits in a generated tag
MaxDigits == 2

-----------------------------------------------------------------------------
(* Image names *)

Digits == {"0", "1", "2", "3", "4", "5", "6", "7", "8", "9"}

\* the literal ":rapid-" of the pattern
RapidLiteral == <<":", "r", "a", "p", "i", "d", "-">>

\* the literal "samcli/lambda" of the prefix test
BuiltinPrefix == <<"s", "a", "m", "c", "l", "i", "/", "l", "a", "m", "b", "d", "a">>

\* str.startswith
startswith(s, prefix) ==
    /\ Len(s) >= Len(prefix)
    /\ SubSeq(s, 1, Len(prefix)) = prefix

\* \d+ over s[from..to]: a non-empty run of digits
DigitRun(s, from, to) ==
    /\ from <= to
    /\ \A k \in from..to : s[k] \in Digits

\* "$" of a pattern without re.MULTILINE: the end of the string, or the
\* position just before a newline that ends the string
EndPositions(s) ==
    {Len(s)} \cup (IF Len(s) > 0 /\ s[Len(s)] = "\n" THEN {Len(s) - 1} ELSE {})

\* re.search(r":rapid-\d+\.\d+.\d+$", s): some position i where the literal
\* starts, followed by digits, a dot, digits, ANY character but a newline
\* (the second dot of the pattern is not escaped), digits, and "$"
RapidPatternFound(s) ==
    \E i \in 1..Len(s) : \E e \in EndPositions(s) :
        /\ i + 6 <= e
        /\ SubSeq(s, i, i + 6) = RapidLiteral
        /\ \E a \in (i + 8)..e : \E b \in (a + 2)..e :
              /\ DigitRun(s, i + 7, a - 1)
              /\ s[a] = "."
              /\ DigitRun(s, a + 1, b - 1)
              /\ s[b] # "\n"
              /\ DigitRun(s, b + 1, e)

_is_rapid_image(s) == IF ~RapidPatternFound(s) THEN FALSE ELSE TRUE

-----------------------------------------------------------------------------
(* Exceptions *)

Exc(type, text, arg) == [type |-> type, msg |-> [text |-> text, arg |-> arg]]

NoExc == Exc("none", "", <<>>)

\* raise ValueError("The facility to invoke warm container does not exist")
WarmError == Exc("ValueError", "The facility to invoke warm container does not exist", <<>>)

\* what docker_client.images.get may raise
ImageNotFound == Exc("ImageNotFound", "No such image", <<>>)

LookupErrors == {Exc("APIError", "500 Server Error", <<>>),
                 Exc("ConnectionError", "Connection aborted", <<>>)}

\* what docker_client.api.pull may raise: docker.errors.APIError, or
\* an exception that is no APIError
PullAPIError == Exc("APIError", "pull access denied", <<>>)

PullRequestErrors == {PullAPIError, Exc("ConnectionError", "Connection aborted", <<>>)}

\* what iterating result_itr may raise
StreamAPIError == Exc("APIError", "unexpected EOF", <<>>)

\* DockerImagePullFailedException(str(ex))
PullFailedFrom(ex) == Exc("DockerImagePullFailedException", ex.msg.text, ex.msg.arg)

\* DockerImagePullFailedException("Could not find {} image locally and
\* failed to pull it from docker.".format(image_name))
PullFailedNotLocal(name) ==
    Exc("DockerImagePullFailedException",
        "Could not find {} image locally and failed to pull it from docker.", name)

-----------------------------------------------------------------------------
(* Pull events: the decoded lines of docker_client.api.pull(stream=True) *)

LayerIds == {"A", "B"}

\* the (current, total) byte counts a "Downloading" line may report
ProgressDetails == {<<0, 0>>, <<29, 100>>, <<100, 100>>}

PullingFsLayer(id) == [status |-> "Pulling fs layer", id |-> id]

Downloading(id, current, total) ==
    [status |-> "Downloading", id |-> id,
     progressDetail |-> [current |-> current, total |-> total]]

Waiting(id) == [status |-> "Waiting", id |-> id]

\* the daemon reports a failure during the pull as a line with an "error"
\* key and no "status" key
ErrorLine == [error |-> "unexpected EOF"]

\* the marker kept in consumed when the iterator itself raised
IterRaised == [raised |-> "APIError"]

PullEvents ==
    {PullingFsLayer(id) : id \in LayerIds}
    \cup {Downloading(id, d[1], d[2]) : id \in LayerIds, d \in ProgressDetails}
    \cup {Waiting("A")}
    \cup {ErrorLine}

-----------------------------------------------------------------------------
(* _display_image_download_progress *)

EmptyLayers == [id \in {} |-> [current |-> 0, total |-> 0]]

\* layers[id] = {"current": c, "total": t}
SetLayer(ls, id, c, t) ==
    [x \in DOMAIN ls \cup {id} |->
        IF x = id THEN [current |-> c, total |-> t] ELSE ls[x]]

\* for _, value in layers.items(): current_sum += value["current"]
RECURSIVE SumCurrent(_, _)
SumCurrent(ls, ids) ==
    IF ids = {} THEN 0
    ELSE LET id == CHOOSE x \in ids : TRUE
         IN ls[id].current + SumCurrent(ls, ids \ {id})

\* for _, value in layers.items(): current_total += value["total"]
RECURSIVE SumTotal(_, _)
SumTotal(ls, ids) ==
    IF ids = {} THEN 0
    ELSE LET id == CHOOSE x \in ids : TRUE
         IN ls[id].total + SumTotal(ls, ids \ {id})

\* The whole percentages k for which the double nearest to k/100, times
\* 100 and rounded to a double, falls below k: 0.29 * 100, 0.57 * 100 and
\* 0.58 * 100 are 28.999999999999996, 56.99999999999999 and
\* 57.99999999999999.
RoundedBelow == {29, 57, 58}

\* int((current_sum / current_total) * 100) in double arithmetic, for
\* 0 <= current_sum <= current_total and current_total > 0.  The quotient
\* is the double nearest to the exact ratio, so the result depends on the
\* ratio alone.  When the exact percentage is no whole number the rounding
\* error is far too small to reach the next whole number and int() gives
\* its floor; when it is a whole number k the product is k or just below k.
Percentage(current_sum, current_total) ==
    LET k == (100 * current_sum) \div current_total
    IN IF (100 * current_sum) % current_total = 0 /\ k \in RoundedBelow
       THEN k - 1
       ELSE k

ProgressLine(current_sum, current_total) ==
    [kind |-> "progress", image |-> <<>>, current |-> current_sum, total |-> current_total,
     percentage |-> Percentage(current_sum, current_total)]

\* "\nFetching {} Docker container image\n".format(image_name)
HeaderLine(name) ==
    [kind |-> "fetching", image |-> name, current |-> 0, total |-> 0, percentage |-> 0]

\* "\rDownloading: done ...\n"
DoneLine == [kind |-> "done", image |-> <<>>, current |-> 0, total |-> 0, percentage |-> 0]

-----------------------------------------------------------------------------
(* The inputs of the model *)

\* the groups of digits of a generated tag: "", "1", "11", ...
DigitGroups == {[k \in 1..n |-> "1"] : n \in 0..MaxDigits}

\* the characters tried where the pattern has its two dots
Separators == {".", "x", "1", "\n"}

Literals == {RapidLiteral, <<":", "r", "-">>}

Trails == {<<>>, <<"a">>, <<"\n">>}

Tag(lit, g1, s1, g2, s2, g3, trail) == lit \o g1 \o <<s1>> \o g2 \o <<s2>> \o g3 \o trail

\* the names _is_rapid_image is called with
TagNames ==
    {head \o Tag(lit, g1, s1, g2, s2, g3, trail) :
        head \in {<<>>, <<"a">>}, lit \in Literals,
        g1 \in DigitGroups, s1 \in Separators,
        g2 \in DigitGroups, s2 \in Separators,
        g3 \in DigitGroups, trail \in Trails}

PlainName == <<"a">>
RapidName == <<"a">> \o Tag(RapidLiteral, <<"1">>, ".", <<"1">>, ".", <<"1">>, <<>>)
OddRapidName == <<"a">> \o Tag(RapidLiteral, <<"1">>, ".", <<"1">>, "x", <<"1">>, <<>>)
BuiltinName == BuiltinPrefix \o <<":", "1">>

\* the images of the containers run is called with
RunNames == {PlainName, RapidName, OddRapidName, BuiltinName}

\* the values of self.docker_network_id
Networks == {<<"None">>, <<"sam-net">>}

\* the network_id the container has before run
CallerNetwork == <<"caller-net">>

\* the values of input_data
Inputs == {<<"None">>, <<"event">>}

BoolStr(b) == IF b THEN "True" ELSE "False"

Call(fn, arg) == [fn |-> fn, arg |-> arg]

\* images.get has not been asked yet / api.pull has not been asked yet
Unasked == Exc("unasked", "", <<>>)

-----------------------------------------------------------------------------
(* The state after construction, at the caller's call *)

Init ==
    /\ op \in {"run", "pull_image", "has_image", "_is_rapid_image"}
    /\ \/ /\ op = "run"
          /\ pc = "run"
          /\ skip_pull_image \in BOOLEAN
          /\ docker_network_id \in Networks
          /\ warm \in BOOLEAN
          /\ input_data \in Inputs
          /\ \E img \in RunNames, created \in BOOLEAN :
                container = [image |-> img, created |-> created,
                             network_id |-> CallerNetwork]
          /\ image_name = <<>>
       \/ /\ op \in {"pull_image", "has_image"}
          /\ pc = op
          /\ skip_pull_image = FALSE
          /\ docker_network_id = <<"None">>
          /\ warm = FALSE
          /\ input_data = <<"None">>
          /\ container = [image |-> PlainName, created |-> FALSE,
                          network_id |-> CallerNetwork]
          /\ image_name = PlainName
       \/ /\ op = "_is_rapid_image"
          /\ pc = op
          /\ skip_pull_image = FALSE
          /\ docker_network_id = <<"None">>
          /\ warm = FALSE
          /\ input_data = <<"None">>
          /\ container = [image |-> PlainName, created |-> FALSE,
                          network_id |-> CallerNetwork]
          /\ image_name \in TagNames
    /\ is_image_local = FALSE
    /\ lookup = Unasked
    /\ request = Unasked
    /\ consumed = <<>>
    /\ layers = EmptyLayers
    /\ out = <<>>
    /\ calls = <<>>
    /\ pull_status = "not called"
    /\ pull_exc = NoExc
    /\ ret = "None"
    /\ raised = NoExc

-----------------------------------------------------------------------------
(* ContainerManager.run *)

\* run without its warm test
RunEnterWithoutWarmTest ==
    /\ pc = "run"
    /\ image_name' = container.image
    /\ pc' = "has_image"
    /\ UNCHANGED <<op, warm, input_data, container, skip_pull_image,
                   docker_network_id, is_image_local, lookup, request,
                   consumed, layers, out, calls, pull_status, pull_exc, ret,
                   raised>>

\* if warm: raise ValueError(...); image_name = container.image
RunEnter ==
    /\ pc = "run"
    /\ IF warm
       THEN /\ raised' = WarmError
            /\ pc' = "raised"
            /\ UNCHANGED image_name
       ELSE /\ image_name' = container.image
            /\ pc' = "has_image"
            /\ UNCHANGED raised
    /\ UNCHANGED <<op, warm, input_data, container, skip_pull_image,
                   docker_network_id, is_image_local, lookup, request,
                   consumed, layers, out, calls, pull_status, pull_exc, ret>>

\* has_image with "except Exception: return False"
HasImageCatchingAll ==
    /\ pc = "has_image"
    /\ \E answer \in {NoExc, ImageNotFound} \cup LookupErrors :
        /\ lookup' = answer
        /\ calls' = Append(calls, Call("images.get", image_name))
        /\ IF op = "run"
           THEN /\ is_image_local' = (answer.type = "none")
                /\ pc' = "decide"
                /\ UNCHANGED ret
           ELSE /\ ret' = BoolStr(answer.type = "none")
                /\ pc' = "done"
                /\ UNCHANGED is_image_local
    /\ UNCHANGED <<op, warm, input_data, container, skip_pull_image,
                   docker_network_id, image_name, request, consumed, layers,
                   out, pull_status, pull_exc, raised>>

\* has_image: self.docker_client.images.get(image_name); return True;
\* except docker.errors.ImageNotFound: return False
HasImage ==
    /\ pc = "has_image"
    /\ \E answer \in {NoExc, ImageNotFound} \cup LookupErrors :
        /\ lookup' = answer
        /\ calls' = Append(calls, Call("images.get", image_name))
        /\ IF answer.type \in {"none", "ImageNotFound"}
           THEN /\ IF op = "run"
                   THEN /\ is_image_local' = (answer.type = "none")
                        /\ pc' = "decide"
                        /\ UNCHANGED ret
                   ELSE /\ ret' = BoolStr(answer.type = "none")
                        /\ pc' = "done"
                        /\ UNCHANGED is_image_local
                /\ UNCHANGED raised
           ELSE /\ raised' = answer
                /\ pc' = "raised"
                /\ UNCHANGED <<is_image_local, ret>>
    /\ UNCHANGED <<op, warm, input_data, container, skip_pull_image,
                   docker_network_id, image_name, request, consumed, layers,
                   out, pull_status, pull_exc>>

\* the two branches of run that skip the pull
SkipPull(local, skip, name) ==
    \/ local /\ skip
    \/ startswith(name, BuiltinPrefix)
    \/ local /\ _is_rapid_image(name)

\* if is_image_local and self.skip_pull_image: ... elif ...: ...
\* else: self.pull_image(image_name)
RunDecide ==
    /\ pc = "decide"
    /\ IF SkipPull(is_image_local, skip_pull_image, image_name)
       THEN /\ pc' = "create"
            /\ UNCHANGED <<calls, pull_status>>
       ELSE /\ pc' = "pull_image"
            /\ calls' = Append(calls, Call("pull_image", image_name))
            /\ pull_status' = "running"
    /\ UNCHANGED <<op, warm, input_data, container, skip_pull_image,
                   docker_network_id, image_name, is_image_local, lookup,
                   request, consumed, layers, out, pull_exc, ret, raised>>

\* pull_image ends with exception exc.  Called by run, a
\* DockerImagePullFailedException is re-raised with run's message when the
\* image is not local and dropped when it is; any other exception is not
\* caught.  Called directly, exc reaches the caller.
PullImageRaises(exc) ==
    /\ pull_status' = "raised"
    /\ pull_exc' = exc
    /\ IF op = "run" /\ exc.type = "DockerImagePullFailedException"
       THEN IF ~is_image_local
            THEN /\ raised' = PullFailedNotLocal(image_name)
                 /\ pc' = "raised"
            ELSE /\ pc' = "create"
                 /\ UNCHANGED raised
       ELSE /\ raised' = exc
            /\ pc' = "raised"

\* pull_image returns
PullImageReturns ==
    /\ pull_status' = "returned"
    /\ pc' = IF op = "run" THEN "create" ELSE "done"
    /\ UNCHANGED <<pull_exc, raised>>

\* run creating the container without asking is_created()
RunCreateUnconditionally ==
    /\ pc = "create"
    /\ container' = [container EXCEPT !.network_id = docker_network_id,
                                      !.created = TRUE]
    /\ calls' = calls \o <<Call("is_created", <<BoolStr(container.created)>>),
                           Call("create", <<>>)>>
    /\ pc' = "start"
    /\ UNCHANGED <<op, warm, input_data, skip_pull_image, docker_network_id,
                   image_name, is_image_local, lookup, request, consumed,
                   layers, out, pull_status, pull_exc, ret, raised>>

\* if not container.is_created(): container.network_id = ...;
\* container.create()
RunCreate ==
    /\ pc = "create"
    /\ IF ~container.created
       THEN /\ container' = [container EXCEPT !.network_id = docker_network_id,
                                              !.created = TRUE]
            /\ calls' = calls \o <<Call("is_created", <<"False">>),
                                   Call("create", <<>>)>>
       ELSE /\ calls' = Append(calls, Call("is_created", <<"True">>))
            /\ UNCHANGED container
    /\ pc' = "start"
    /\ UNCHANGED <<op, warm, input_data, skip_pull_image, docker_network_id,
                   image_name, is_image_local, lookup, request, consumed,
                   layers, out, pull_status, pull_exc, ret, raised>>

\* container.start(input_data=input_data)
RunStart ==
    /\ pc = "start"
    /\ calls' = Append(calls, Call("start", input_data))
    /\ pc' = "done"
    /\ UNCHANGED <<op, warm, input_data, container, skip_pull_image,
                   docker_network_id, image_name, is_image_local, lookup,
                   request, consumed, layers, out, pull_status, pull_exc,
                   ret, raised>>

-----------------------------------------------------------------------------
(* ContainerManager.pull_image *)

\* result_itr = self.docker_client.api.pull(...); except APIError: raise
\* DockerImagePullFailedException(str(ex)); stream_writer.write(header)
PullRequest ==
    /\ pc = "pull_image"
    /\ \E answer \in {NoExc} \cup PullRequestErrors :
        /\ request' = answer
        /\ calls' = Append(calls, Call("api.pull", image_name))
        /\ IF answer = NoExc
           THEN /\ out' = Append(out, HeaderLine(image_name))
                /\ pc' = "display"
                /\ pull_status' = "running"
                /\ UNCHANGED <<pull_exc, raised>>
           ELSE /\ PullImageRaises(IF answer.type = "APIError"
                                   THEN PullFailedFrom(answer) ELSE answer)
                /\ UNCHANGED out
    /\ layers' = EmptyLayers
    /\ UNCHANGED <<op, warm, input_data, container, skip_pull_image,
                   docker_network_id, image_name, is_image_local, lookup,
                   consumed, ret>>

\* one turn of "for line in result_itr" with the iterator delivering line
DisplayLine ==
    /\ pc = "display"
    /\ Len(consumed) < MaxEvents
    /\ \E line \in PullEvents :
        /\ consumed' = Append(consumed, line)
        /\ IF "status" \notin DOMAIN line
           THEN \* line["status"] raises KeyError
                /\ PullImageRaises(Exc("KeyError", "status", <<>>))
                /\ UNCHANGED <<layers, out>>
           ELSE IF line.status = "Pulling fs layer"
           THEN /\ layers' = SetLayer(layers, line.id, 0, 0)
                /\ UNCHANGED <<pc, out, pull_status, pull_exc, raised>>
           ELSE IF line.status # "Downloading"
           THEN UNCHANGED <<pc, layers, out, pull_status, pull_exc, raised>>
           ELSE IF line.id \notin DOMAIN layers
           THEN \* layers[line["id"]] raises KeyError
                /\ PullImageRaises(Exc("KeyError", line.id, <<>>))
                /\ UNCHANGED <<layers, out>>
           ELSE LET updated == SetLayer(layers, line.id,
                                        line.progressDetail.current,
                                        line.progressDetail.total)
                    current_sum == SumCurrent(updated, DOMAIN updated)
                    current_total == SumTotal(updated, DOMAIN updated)
                IN /\ layers' = updated
                   /\ IF current_total = 0
                      THEN \* current_sum / current_total
                           /\ PullImageRaises(Exc("ZeroDivisionError",
                                                  "division by zero", <<>>))
                           /\ UNCHANGED out
                      ELSE /\ out' = Append(out, ProgressLine(current_sum,
                                                              current_total))
                           /\ UNCHANGED <<pc, pull_status, pull_exc, raised>>
    /\ UNCHANGED <<op, warm, input_data, container, skip_pull_image,
                   docker_network_id, image_name, is_image_local, lookup,
                   request, calls, ret>>

\* the iterator raises while the loop asks it for the next line
DisplayIteratorRaises ==
    /\ pc = "display"
    /\ consumed' = Append(consumed, IterRaised)
    /\ PullImageRaises(StreamAPIError)
    /\ UNCHANGED <<op, warm, input_data, container, skip_pull_image,
                   docker_network_id, image_name, is_image_local, lookup,
                   request, layers, out, calls, ret>>

\* the iterator is exhausted: the loop ends and the last line is written
DisplayDone ==
    /\ pc = "display"
    /\ out' = Append(out, DoneLine)
    /\ PullImageReturns
    /\ UNCHANGED <<op, warm, input_data, container, skip_pull_image,
                   docker_network_id, image_name, is_image_local, lookup,
                   request, consumed, layers, calls, ret>>

-----------------------------------------------------------------------------
(* ContainerManager._is_rapid_image, called on its own *)

IsRapidCall ==
    /\ pc = "_is_rapid_image"
    /\ ret' = BoolStr(_is_rapid_image(image_name))
    /\ pc' = "done"
    /\ UNCHANGED <<op, warm, input_data, container, skip_pull_image,
                   docker_network_id, image_name, is_image_local, lookup,
                   request, consumed, layers, out, calls, pull_status,
                   pull_exc, raised>>

-----------------------------------------------------------------------------

Next ==
    \/ RunEnter
    \/ HasImage
    \/ RunDecide
    \/ RunCreate
    \/ RunStart
    \/ PullRequest
    \/ DisplayLine
    \/ DisplayIteratorRaises
    \/ DisplayDone
    \/ IsRapidCall

Spec == Init /\ [][Next]_vars

-----------------------------------------------------------------------------
(* What the properties below speak of *)

\* how many calls of fn were made
CountCalls(fn) == Cardinality({i \in 1..Len(calls) : calls[i].fn = fn})

\* the positions of the calls of fn
CallsAt(fn) == {i \in 1..Len(calls) : calls[i].fn = fn}

\* the name ends with ":rapid-<digits>.<digits>.<digits>", both separators
\* being dots
RapidTagged(s) ==
    \E i \in 1..Len(s) :
        /\ i + 6 <= Len(s)
        /\ SubSeq(s, i, i + 6) = RapidLiteral
        /\ \E a \in (i + 8)..Len(s) : \E b \in (a + 2)..Len(s) :
              /\ DigitRun(s, i + 7, a - 1)
              /\ s[a] = "."
              /\ DigitRun(s, a + 1, b - 1)
              /\ s[b] = "."
              /\ DigitRun(s, b + 1, Len(s))

\* run has taken its decision about the pull
PastDecision == op = "run" /\ pc \notin {"run", "has_image", "decide"}

\* the stream signalled a server-side error: an error line was delivered,
\* or the iterator raised
StreamSignalledError ==
    /\ consumed # <<>>
    /\ LET last == consumed[Len(consumed)]
       IN "error" \in DOMAIN last \/ "raised" \in DOMAIN last

\* the pull failed: the request could not be established, or the stream
\* signalled a server-side error
PullFailed == request.type = "APIError" \/ StreamSignalledError

IsStatus(line, status) == "status" \in DOMAIN line /\ line.status = status

-----------------------------------------------------------------------------
\* C1: once run (warm = False) has an answer from has_image and has taken
\* its decision, pull_image has been called exactly once if
\* NOT(local AND skip_pull_image) AND NOT(name starts with "samcli/lambda")
\* AND NOT(local AND name is rapid-tagged), and not at all otherwise.
PullDecisionAsStated ==
    PastDecision /\ ~warm /\ lookup.type \in {"none", "ImageNotFound"} =>
        LET local == lookup.type = "none"
            pulls == /\ ~(local /\ skip_pull_image)
                     /\ ~startswith(container.image, BuiltinPrefix)
                     /\ ~(local /\ RapidTagged(container.image))
        IN CountCalls("pull_image") = (IF pulls THEN 1 ELSE 0)

\* C2: if the image is absent locally and the pull attempted by run fails,
\* run raises DockerImagePullFailedException with the "could not find ...
\* locally and failed to pull" message, without create(), start() or an
\* assignment to network_id.
AbsentAndPullFailsRaisesPullFailed ==
    op = "run" /\ lookup = ImageNotFound /\ PullFailed =>
        /\ pc = "raised"
        /\ raised = PullFailedNotLocal(container.image)
        /\ CountCalls("create") = 0
        /\ CountCalls("start") = 0
        /\ container.network_id = CallerNetwork

\* C3: if the image is present locally, skip_pull_image is false, the name
\* is neither built-in-prefixed nor rapid-tagged and the pull fails, run
\* does not raise and goes on to create and start the container.
LocalAndPullFailsGoesOn ==
    /\ op = "run" /\ lookup = NoExc /\ ~skip_pull_image
    /\ ~startswith(container.image, BuiltinPrefix)
    /\ ~RapidTagged(container.image)
    /\ PullFailed
    => /\ raised = NoExc
       /\ pc \in {"create", "start", "done"}
       /\ pc = "done" => CountCalls("start") = 1

\* C5: whenever the pull request cannot be established or the stream
\* signals a server-side error, pull_image ends with
\* DockerImagePullFailedException carrying the cause's message, and with no
\* other kind of error.
PullFailureIsPullFailedException ==
    PullFailed =>
        /\ pull_status = "raised"
        /\ pull_exc.type = "DockerImagePullFailedException"
        /\ pull_exc.msg = (IF request.type = "APIError"
                           THEN request.msg ELSE StreamAPIError.msg)

\* C6: a "Downloading" line that leaves the sum of the totals of the
\* tracked layers at 0 is handled without raising.
ZeroTotalDoesNotRaise ==
    /\ consumed # <<>>
    /\ IsStatus(consumed[Len(consumed)], "Downloading")
    /\ consumed[Len(consumed)].id \in DOMAIN layers
    /\ SumTotal(layers, DOMAIN layers) = 0
    => /\ pull_status # "raised"
       /\ pull_status = "returned" => out[Len(out)] = DoneLine

\* C10: _is_rapid_image returns true for exactly the names that end with
\* ":rapid-<digits>.<digits>.<digits>".
RapidImageIsRapidTagged ==
    op = "_is_rapid_image" /\ pc = "done" => ret = BoolStr(RapidTagged(image_name))

-----------------------------------------------------------------------------
(* The progress lines a stream should produce, from the stream alone *)

\* the lines of the stream that report on layer id: its "Pulling fs layer"
\* line (which reports 0 of 0) and its "Downloading" lines
ReportsOn(stream, id) ==
    {k \in 1..Len(stream) :
        /\ "status" \in DOMAIN stream[k]
        /\ stream[k].status \in {"Pulling fs layer", "Downloading"}
        /\ stream[k].id = id}

\* the layers the stream has initialised
Tracked(stream) ==
    {id \in LayerIds :
        \E k \in 1..Len(stream) : stream[k] = PullingFsLayer(id)}

\* the most recent report on layer id
LastReport(stream, id) ==
    LET k == CHOOSE m \in ReportsOn(stream, id) :
                 \A n \in ReportsOn(stream, id) : n <= m
    IN IF stream[k].status = "Downloading"
       THEN [current |-> stream[k].progressDetail.current,
             total |-> stream[k].progressDetail.total]
       ELSE [current |-> 0, total |-> 0]

RECURSIVE ReportedCurrent(_, _)
ReportedCurrent(stream, ids) ==
    IF ids = {} THEN 0
    ELSE LET id == CHOOSE x \in ids : TRUE
         IN LastReport(stream, id).current + ReportedCurrent(stream, ids \ {id})

RECURSIVE ReportedTotal(_, _)
ReportedTotal(stream, ids) ==
    IF ids = {} THEN 0
    ELSE LET id == CHOOSE x \in ids : TRUE
         IN LastReport(stream, id).total + ReportedTotal(stream, ids \ {id})

Prefix(stream, k) == SubSeq(stream, 1, k)

\* every "Downloading" line is about a layer initialised before it and
\* leaves a positive sum of totals
WellFormed(stream) ==
    \A k \in 1..Len(stream) :
        IsStatus(stream[k], "Downloading") =>
            /\ stream[k].id \in Tracked(Prefix(stream, k - 1))
            /\ ReportedTotal(Prefix(stream, k), Tracked(Prefix(stream, k))) > 0

\* the sums after each "Downloading" line among the first k lines, in order
RECURSIVE RunningSums(_, _)
RunningSums(stream, k) ==
    IF k = 0 THEN <<>>
    ELSE IF IsStatus(stream[k], "Downloading")
    THEN Append(RunningSums(stream, k - 1),
                <<ReportedCurrent(Prefix(stream, k), Tracked(Prefix(stream, k))),
                  ReportedTotal(Prefix(stream, k), Tracked(Prefix(stream, k)))>>)
    ELSE RunningSums(stream, k - 1)

IsProgress(l) == l.kind = "progress"

IsDone(l) == l.kind = "done"

\* the progress lines written so far show the exact running sums, one line
\* for each "Downloading" line
ProgressShowsRunningSums ==
    LET written == SelectSeq(out, IsProgress)
        sums == RunningSums(consumed, Len(consumed))
    IN /\ Len(written) = Len(sums)
       /\ \A j \in 1..Len(written) :
              <<written[j].current, written[j].total>> = sums[j]

\* the layers kept are the layers initialised, each with its last report
LayersAreLastReports ==
    /\ DOMAIN layers = Tracked(consumed)
    /\ \A id \in DOMAIN layers : layers[id] = LastReport(consumed, id)

\* one completion line, the last line written, once the stream is
\* exhausted, and none before
CompletionLineLast ==
    IF pull_status = "returned"
    THEN /\ out[Len(out)] = DoneLine
         /\ Len(SelectSeq(out, IsDone)) = 1
    ELSE SelectSeq(out, IsDone) = <<>>

\* every percentage written is the floor of 100 * current / total
PercentagesAreFloors ==
    \A j \in 1..Len(out) :
        IsProgress(out[j]) =>
            out[j].percentage = (100 * out[j].current) \div out[j].total

\* C8: for a stream whose "Downloading" lines are about initialised layers
\* and leave a positive sum of totals, one progress line is written per
\* "Downloading" line and none for any other line, each showing the exact
\* running sums and percentage = floor(sumCurrent / sumTotal * 100); other
\* lines change no layer; one completion line ends the output.
ProgressAsStated ==
    pull_status # "not called" /\ WellFormed(consumed) =>
        /\ ProgressShowsRunningSums
        /\ LayersAreLastReports
        /\ CompletionLineLast
        /\ PercentagesAreFloors

\* the same without the percentages, which is what the loop does
ProgressSumsAsCoded ==
    pull_status # "not called" /\ WellFormed(consumed) =>
        /\ ProgressShowsRunningSums
        /\ LayersAreLastReports
        /\ CompletionLineLast

-----------------------------------------------------------------------------
\* C4: run(container, input_data, warm=True) raises ValueError and does
\* nothing else: no image lookup, no pull, no create(), no start(), no
\* assignment to network_id, nothing written.
WarmRaisesWithoutSideEffects ==
    op = "run" /\ warm /\ pc # "run" =>
        /\ pc = "raised"
        /\ raised = WarmError
        /\ calls = <<>>
        /\ lookup = Unasked
        /\ request = Unasked
        /\ pull_status = "not called"
        /\ out = <<>>
        /\ container.network_id = CallerNetwork

WarmRaised ==
    /\ op = "run" /\ warm /\ pc = "raised"
    /\ ~container.created /\ ~skip_pull_image
    /\ raised.type = "ValueError"

\* C7: has_image returns True when images.get succeeds, False (raising
\* nothing) when it raises ImageNotFound, and lets any other exception
\* through unchanged; inside run such an exception ends run with only the
\* lookup made: no pull, no create(), no start().
HasImageAnswers ==
    /\ op = "has_image" /\ pc # "has_image" =>
          /\ lookup = NoExc => pc = "done" /\ ret = "True" /\ raised = NoExc
          /\ lookup = ImageNotFound => pc = "done" /\ ret = "False" /\ raised = NoExc
          /\ lookup \in LookupErrors => pc = "raised" /\ ret = "None" /\ raised = lookup
    /\ op = "run" /\ lookup # Unasked =>
          /\ lookup = NoExc => is_image_local /\ pc # "has_image"
          /\ lookup = ImageNotFound => ~is_image_local /\ raised.type # "ImageNotFound"
          /\ lookup \in LookupErrors =>
                /\ pc = "raised"
                /\ raised = lookup
                /\ calls = <<Call("images.get", container.image)>>
                /\ request = Unasked
                /\ pull_status = "not called"
                /\ out = <<>>
                /\ container.network_id = CallerNetwork

LookupErrorEndedRun ==
    /\ op = "run" /\ pc = "raised"
    /\ lookup.type = "ConnectionError"
    /\ raised.type = "ConnectionError"

\* C9: in a run that got past the pull decision without raising: when
\* is_created() is false the container gets the manager's
\* docker_network_id and create() is called once, before start; when it is
\* true create() is not called and network_id stays; start is called once,
\* last, with the caller's input_data; and nothing of this happens before
\* the pull decision and the pull are over.
CreateThenStart ==
    op = "run" =>
        /\ CountCalls("create") <= 1 /\ CountCalls("start") <= 1
        /\ CountCalls("create") + CountCalls("start") > 0 =>
              /\ pc \in {"start", "done"}
              /\ pull_status \in {"not called", "returned", "raised"}
              /\ \A i \in CallsAt("create") \cup CallsAt("start") :
                 \A j \in CallsAt("images.get") \cup CallsAt("pull_image")
                          \cup CallsAt("api.pull") : j < i
        /\ pc \in {"start", "done"} =>
              /\ CountCalls("is_created") = 1
              /\ IF Call("is_created", <<"False">>) \in {calls[i] : i \in 1..Len(calls)}
                 THEN /\ CountCalls("create") = 1
                      /\ container.network_id = docker_network_id
                      /\ container.created
                 ELSE /\ CountCalls("create") = 0
                      /\ container.network_id = CallerNetwork
        /\ pc = "start" => CountCalls("start") = 0
        /\ pc = "done" =>
              /\ calls[Len(calls)] = Call("start", input_data)
              /\ \A i \in CallsAt("create") : i = Len(calls) - 1
        /\ pc = "raised" => CountCalls("create") + CountCalls("start") = 0

CreatedAndStartedAfterPull ==
    /\ op = "run" /\ pc = "done"
    /\ pull_status = "returned"
    /\ CountCalls("create") = 1
    /\ container.network_id = <<"sam-net">>
    /\ calls[Len(calls)] = Call("start", <<"event">>)

====
